---- MODULE Spec2Model ----
(***************************************************************************)
(* The confidence-gated retrieval pipeline of MEDGPT v1.0                  *)
(* (src/python/medgpt_v1_0.py): WebSearchEngine and HealthcareRAG.         *)
(*                                                                         *)
(* Conventions.  A text is a sequence of string fragments, so that the     *)
(* f-strings of the source are concatenations.  An embedding is a pair of  *)
(* integers; a normalized embedding has length 10, so an inner product of  *)
(* two normalized embeddings is a cosine similarity in hundredths          *)
(* (0.6 is 60).  The embedding model, the dataset hub, the search provider *)
(* and the page fetch are the environment: each call of an operation draws *)
(* their outcomes (a value, or an exception) with \E.                      *)
(***************************************************************************)
EXTENDS Integers, Sequences, FiniteSets

VARIABLES documents, index, last

vars == <<documents, index, last>>

---------------------------------------------------------------------------
(* Bounds of the model *)

\* neither the store nor the index is grown beyond this many entries
MaxDocs == 3
\* largest limit passed to load_healthcare_magic_dataset
MaxLimit == 2
\* largest top_k passed to retrieve and query
MaxTopK == 2

---------------------------------------------------------------------------
(* Texts and the environment's data *)

Range(s) == {s[i] : i \in 1..Len(s)}

Min(a, b) == IF a < b THEN a ELSE b

\* the rows of the dataset's train split, in order
HealthCareMagic ==
    << [input |-> <<"fever causes">>, output |-> <<"viral infection">>],
       [input |-> <<"cough at night">>, output |-> <<"see a doctor">>] >>

Queries == {<<"what causes fever">>}

\* the provider's ranking; a result page is a prefix of it
ProviderRanking ==
    << [title |-> <<"Fever">>, snippet |-> <<"...">>, url |-> "http://x"],
       [title |-> <<"Flu">>, snippet |-> <<"rest">>, url |-> "http://y"] >>

\* an exception in place of a result page
Raises == <<[exception |-> "RequestException"]>>

\* f"Question: {q}\nAnswer: {a}"
FormatContent(question, answer) ==
    <<"Question: ">> \o question \o <<"\nAnswer: ">> \o answer

\* SentenceTransformer.encode of one text, before normalizing: the loaded
\* model is a fixed function of the text; here the vector follows the text's
\* subject (the question of a document's content, or the query itself)
encode(text) ==
    LET subject == IF text[1] = "Question: " THEN text[2] ELSE text[1]
    IN  CASE subject = "fever causes" -> <<0, 2>>
          [] subject = "cough at night" -> <<3, 4>>
          [] subject = "what causes fever" -> <<5, 0>>

\* np.linalg.norm of one row
Norm(v) == CHOOSE n \in 0..10 : n * n = v[1] * v[1] + v[2] * v[2]

\* embedding / np.linalg.norm(embedding): a vector of length 10 (1.0)
Normalize(v) == << (v[1] * 10) \div Norm(v), (v[2] * 10) \div Norm(v) >>

\* faiss.IndexFlatIP's metric: the inner product, in hundredths
InnerProduct(a, b) == a[1] * b[1] + a[2] * b[2]

---------------------------------------------------------------------------
(* HealthcareRAG.__init__ *)

\* self.index = None
None == [built |-> FALSE, vectors |-> <<>>]

\* self.confidence_threshold = 0.6
confidence_threshold == 60

\* no call has been made yet
NoCall == [op |-> "none"]

\* index.ntotal
ntotal(idx) == Len(idx.vectors)

Init ==
    /\ documents = <<>>
    /\ index = None
    /\ last = NoCall

---------------------------------------------------------------------------
(* load_healthcare_magic_dataset *)

\* df.head(limit), each row made a document with id = its row number
LoadedDocuments(limit) ==
    [i \in 1..Min(limit, Len(HealthCareMagic)) |->
        [id |-> i - 1,
         question |-> HealthCareMagic[i].input,
         answer |-> HealthCareMagic[i].output,
         content |-> FormatContent(HealthCareMagic[i].input,
                                   HealthCareMagic[i].output)]]

\* load_dataset raises before the store is touched, or the store is replaced
load_healthcare_magic_dataset(limit, hub_ok) ==
    /\ documents' = IF hub_ok THEN LoadedDocuments(limit) ELSE documents
    /\ last' = [op |-> "load_healthcare_magic_dataset", raised |-> ~hub_ok]
    /\ UNCHANGED index

---------------------------------------------------------------------------
(* build_index *)

\* encode(texts) raises, or yields one raw vector per text; an empty text list
\* yields an array without a second axis, on which the norm over axis 1 raises
BuildIndex(docs, idx, encode_ok) ==
    IF ~encode_ok \/ Len(docs) = 0
    THEN [index |-> idx, raised |-> TRUE]
    ELSE [index |-> [built |-> TRUE,
                     vectors |-> [i \in 1..Len(docs) |->
                                     Normalize(encode(docs[i].content))]],
          raised |-> FALSE]

build_index(encode_ok) ==
    /\ LET r == BuildIndex(documents, index, encode_ok)
       IN  /\ index' = r.index
           /\ last' = [op |-> "build_index", raised |-> r.raised]
    /\ UNCHANGED documents

---------------------------------------------------------------------------
(* add_document_to_index *)

\* add_document_to_index without the check of the index: the document is
\* stored before the missing index is touched
AddDocumentUnchecked(docs, idx, document, encode_ok) ==
    LET doc_id == Len(docs)
        stored == Append(docs, [document EXCEPT !.id = doc_id])
    IN  IF ~encode_ok
        THEN [documents |-> stored, index |-> idx, raised |-> TRUE,
              error |-> "encode"]
        ELSE IF ~idx.built
        THEN [documents |-> stored, index |-> idx, raised |-> TRUE,
              error |-> "index is None"]
        ELSE [documents |-> stored,
              index |-> [idx EXCEPT !.vectors =
                  Append(@, Normalize(encode(document.content)))],
              raised |-> FALSE, value |-> doc_id]

\* lines 276-289: the check of the index, the append to the store, then the
\* embedding and the append to the index
AddDocument(docs, idx, document, encode_ok) ==
    IF ~idx.built
    THEN [documents |-> docs, index |-> idx, raised |-> TRUE,
          error |-> "Index not initialized. Call build_index first."]
    ELSE LET doc_id == Len(docs)
             stored == Append(docs, [document EXCEPT !.id = doc_id])
         IN  IF ~encode_ok
             THEN [documents |-> stored, index |-> idx, raised |-> TRUE,
                   error |-> "encode"]
             ELSE [documents |-> stored,
                   index |-> [idx EXCEPT !.vectors =
                       Append(@, Normalize(encode(document.content)))],
                   raised |-> FALSE, value |-> doc_id]

\* the documents a caller passes to add_document_to_index; the id is assigned
\* by the call
NewDocuments ==
    { [id |-> -1, question |-> <<"what causes fever">>,
       answer |-> <<"Fever", ". ", "...">>,
       content |-> FormatContent(<<"what causes fever">>,
                                 <<"Fever", ". ", "...">>),
       url |-> "http://x"] }

\* the store and the index stay within the model's bound
WithinBound(r) ==
    Len(r.documents) <= MaxDocs /\ ntotal(r.index) <= MaxDocs

add_document_to_index(document, encode_ok) ==
    /\ LET r == AddDocument(documents, index, document, encode_ok)
       IN  /\ WithinBound(r)
           /\ documents' = r.documents
           /\ index' = r.index
           /\ last' = IF r.raised
                      THEN [op |-> "add_document_to_index", raised |-> TRUE,
                            error |-> r.error]
                      ELSE [op |-> "add_document_to_index", raised |-> FALSE,
                            document |-> document, value |-> r.value]

---------------------------------------------------------------------------
(* retrieve *)

\* index.search(query_embedding, top_k): the labels of the top_k largest inner
\* products, best first; faiss does not fix the order of equal scores, so every
\* order of them is an outcome.  Slots beyond ntotal hold -1 and are left out.
FaissSearch(idx, query_embedding, top_k) ==
    LET n == ntotal(idx)
        m == Min(top_k, n)
        score(p) == InnerProduct(query_embedding, idx.vectors[p])
    IN  { labels \in [1..m -> 1..n] :
            /\ \A i, j \in 1..m : i < j =>
                  /\ labels[i] # labels[j]
                  /\ score(labels[i]) >= score(labels[j])
            /\ \A p \in 1..n : p \notin Range(labels) =>
                  \A i \in 1..m : score(labels[i]) >= score(p) }

\* the outcomes of the index search of one retrieve call
SearchOutcomes(idx, query, top_k, encode_ok) ==
    IF ~encode_ok \/ ~idx.built
    THEN {<<>>}
    ELSE FaissSearch(idx, Normalize(encode(query)), top_k)

\* lines 306-327; labels are positions in the index, from 1.  The search of
\* an index that is None raises
Retrieve(docs, idx, query, top_k, encode_ok, labels) ==
    IF ~encode_ok \/ ~idx.built
    THEN [raised |-> TRUE,
          error |-> IF ~encode_ok THEN "encode" ELSE "index is None"]
    ELSE LET query_embedding == Normalize(encode(query))
             valid == SelectSeq(labels, LAMBDA p : p - 1 < Len(docs))
         IN  [raised |-> FALSE,
              value |-> [i \in 1..Len(valid) |->
                  [id |-> docs[valid[i]].id,
                   content |-> docs[valid[i]].content,
                   question |-> docs[valid[i]].question,
                   answer |-> docs[valid[i]].answer,
                   score |-> InnerProduct(query_embedding,
                                          idx.vectors[valid[i]]),
                   source |-> "local_database"]]]

\* what one retrieve call can give, over the outcomes of encode and of the
\* index search
RetrieveOutcomes(docs, idx, query, top_k) ==
    UNION { { Retrieve(docs, idx, query, top_k, encode_ok, labels) :
                labels \in SearchOutcomes(idx, query, top_k, encode_ok) } :
            encode_ok \in BOOLEAN }

retrieve(query, top_k) ==
    /\ \E r \in RetrieveOutcomes(documents, index, query, top_k) :
           last' = IF r.raised
                   THEN [op |-> "retrieve", raised |-> TRUE, error |-> r.error]
                   ELSE [op |-> "retrieve", raised |-> FALSE, query |-> query,
                         top_k |-> top_k, value |-> r.value]
    /\ UNCHANGED <<documents, index>>

---------------------------------------------------------------------------
(* WebSearchEngine *)

\* a provider's answer: an exception, or a result page of the first hits of
\* its ranking
ProviderOutcomes == {Raises} \cup
    {SubSeq(ProviderRanking, 1, n) : n \in 0..Len(ProviderRanking)}

\* _search_with_serpapi: the organic results cut to num_results
search_with_serpapi(num_results, serpapi) ==
    SubSeq(serpapi, 1, Min(num_results, Len(serpapi)))

\* _search_with_ddg: the results cut to num_results; an exception is logged
\* and raised again as CustomException (the return [] after it is not reached)
search_with_ddg(num_results, ddg) ==
    IF ddg = Raises
    THEN [raised |-> TRUE, value |-> <<>>]
    ELSE [raised |-> FALSE,
          value |-> SubSeq(ddg, 1, Min(num_results, Len(ddg)))]

\* WebSearchEngine.search: SerpAPI when there is an api key and it answers,
\* otherwise DuckDuckGo
search(num_results, api_key, serpapi, ddg) ==
    IF api_key /\ serpapi # Raises
    THEN [raised |-> FALSE, value |-> search_with_serpapi(num_results, serpapi)]
    ELSE search_with_ddg(num_results, ddg)

\* the outcomes of search, over the api key setting and the providers' answers
SearchResults(num_results) ==
    { search(num_results, api_key, serpapi, ddg) :
        api_key \in BOOLEAN, serpapi \in ProviderOutcomes,
        ddg \in ProviderOutcomes }

\* the cleaned text of a fetched page
PageText == <<"page text">>

\* what a page fetch can do: raise, yield a page without text, yield text
FetchOutcomes == {"raises", "empty", "text"}

\* fetch_content: the text, or "" when the fetch raised
fetch_content(outcome) == IF outcome = "text" THEN PageText ELSE <<>>

\* what fetch_content returns for each of n hits
Fetched(n) == [1..n -> {fetch_content(outcome) : outcome \in FetchOutcomes}]

\* whether encode returns, for each hit that has content; the loop of
\* search_web ends at the first encode that raises, so at most one does
Encoded(fetched) ==
    LET with_content == {i \in DOMAIN fetched : fetched[i] # <<>>}
    IN  {[i \in with_content |-> i # failing] : failing \in with_content \cup {0}}

---------------------------------------------------------------------------
(* search_web *)

\* the num_results a caller passes: the default, and a smaller one
NumResults == {1, 3}

\* lines 359-367: the document returned for hit i (from 0)
WebDoc(i, result, full_content) ==
    [id |-> <<"web_", i>>,
     title |-> result.title,
     snippet |-> result.snippet,
     url |-> result.url,
     content |-> full_content,
     score |-> 100 - (i * 10),
     source |-> "web"]

\* f"{result['title']}. {result['snippet']}"
SimplifiedAnswer(result) == result.title \o <<". ">> \o result.snippet

\* a pseudo-document whose answer is the snippet alone, without the title
LocalDocSnippetOnly(query, result) ==
    [id |-> -1,
     question |-> query,
     answer |-> result.snippet,
     content |-> FormatContent(query, result.snippet),
     url |-> result.url]

\* lines 372-378: the pseudo-document stored for a hit
LocalDoc(query, result) ==
    [id |-> -1,
     question |-> query,
     answer |-> SimplifiedAnswer(result),
     content |-> FormatContent(query, SimplifiedAnswer(result)),
     url |-> result.url]

\* the loop without the skip of a hit that has no content
RECURSIVE ProcessResultsNoSkip(_, _, _, _, _, _)
ProcessResultsNoSkip(query, search_results, fetched, encode_ok, i, st) ==
    IF i > Len(search_results)
    THEN st
    ELSE LET doc == WebDoc(i - 1, search_results[i], fetched[i])
             r == AddDocument(st.documents, st.index,
                              LocalDoc(query, search_results[i]),
                              IF i \in DOMAIN encode_ok
                              THEN encode_ok[i] ELSE TRUE)
             next == [documents |-> r.documents, index |-> r.index,
                      web_docs |-> Append(st.web_docs, doc),
                      raised |-> r.raised]
         IN  IF r.raised
             THEN next
             ELSE ProcessResultsNoSkip(query, search_results, fetched,
                                       encode_ok, i + 1, next)

\* lines 350-381: the loop over the hits from position i (from 1); st holds
\* the store, the index and the web_docs so far
RECURSIVE ProcessResults(_, _, _, _, _, _)
ProcessResults(query, search_results, fetched, encode_ok, i, st) ==
    IF i > Len(search_results)
    THEN st
    ELSE LET full_content == fetched[i]
         IN  IF full_content = <<>>
             THEN ProcessResults(query, search_results, fetched, encode_ok,
                                 i + 1, st)
             ELSE LET doc == WebDoc(i - 1, search_results[i], full_content)
                      r == AddDocument(st.documents, st.index,
                                       LocalDoc(query, search_results[i]),
                                       encode_ok[i])
                      next == [documents |-> r.documents, index |-> r.index,
                               web_docs |-> Append(st.web_docs, doc),
                               raised |-> r.raised]
                  IN  IF r.raised
                      THEN next
                      ELSE ProcessResults(query, search_results, fetched,
                                          encode_ok, i + 1, next)

\* search_web(query, num_results), found being what search gave: every
\* exception is raised again
SearchWeb(docs, idx, query, found, fetched, encode_ok) ==
    IF found.raised
    THEN [documents |-> docs, index |-> idx, raised |-> TRUE,
          error |-> "search"]
    ELSE LET r == ProcessResults(query, found.value, fetched, encode_ok, 1,
                     [documents |-> docs, index |-> idx,
                      web_docs |-> <<>>, raised |-> FALSE])
         IN  IF r.raised
             THEN [documents |-> r.documents, index |-> r.index,
                   raised |-> TRUE, error |-> "add_document_to_index"]
             ELSE [documents |-> r.documents, index |-> r.index,
                   raised |-> FALSE, search_results |-> found.value,
                   fetched |-> fetched, value |-> r.web_docs]

\* what one search_web call can give, over the outcomes of the search, of the
\* page fetches and of encode
SearchWebOutcomes(docs, idx, query, num_results) ==
    UNION { UNION { { SearchWeb(docs, idx, query, found, fetched, encode_ok) :
                        encode_ok \in Encoded(fetched) } :
                    fetched \in Fetched(Len(found.value)) } :
            found \in SearchResults(num_results) }

search_web(query, num_results) ==
    /\ \E r \in SearchWebOutcomes(documents, index, query, num_results) :
           /\ WithinBound(r)
           /\ documents' = r.documents
           /\ index' = r.index
           /\ last' = IF r.raised
                      THEN [op |-> "search_web", raised |-> TRUE,
                            error |-> r.error]
                      ELSE [op |-> "search_web", raised |-> FALSE,
                            query |-> query,
                            search_results |-> r.search_results,
                            fetched |-> r.fetched, value |-> r.value]

---------------------------------------------------------------------------
(* generate_response *)

\* a descending sort that is not stable: a document goes before the
\* earlier documents of its score
RECURSIVE SortedUnstable(_)
SortedUnstable(docs) ==
    IF docs = <<>>
    THEN <<>>
    ELSE LET rest == SortedUnstable(SubSeq(docs, 1, Len(docs) - 1))
             doc == docs[Len(docs)]
             before == SelectSeq(rest, LAMBDA d : d.score > doc.score)
             after == SelectSeq(rest, LAMBDA d : d.score <= doc.score)
         IN  before \o <<doc>> \o after

\* sorted(retrieved_docs, key=score, reverse=True): a stable sort, so
\* documents of equal score keep their order
RECURSIVE SortedByScore(_)
SortedByScore(docs) ==
    IF docs = <<>>
    THEN <<>>
    ELSE LET rest == SortedByScore(SubSeq(docs, 1, Len(docs) - 1))
             doc == docs[Len(docs)]
             before == SelectSeq(rest, LAMBDA d : d.score >= doc.score)
             after == SelectSeq(rest, LAMBDA d : d.score < doc.score)
         IN  before \o <<doc>> \o after

\* lines 396-403 and 457: the prompt and the generation are the generation
\* service's; its text is opaque
GenerateResponse(retrieved_docs) ==
    LET web_docs == SelectSeq(retrieved_docs, LAMBDA d : d.source = "web")
    IN  [response |-> <<"generated text">>,
         used_web_search |-> Len(web_docs) > 0,
         sorted_docs |-> SortedByScore(retrieved_docs)]

---------------------------------------------------------------------------
(* query *)

\* max([doc['score'] for doc in local_docs], default=0)
MaxScore(local_docs) ==
    IF Len(local_docs) = 0
    THEN 0
    ELSE CHOOSE s \in {local_docs[i].score : i \in 1..Len(local_docs)} :
            \A i \in 1..Len(local_docs) : local_docs[i].score <= s

\* the decision with a threshold that is not strict
NeedWebSearchAtThreshold(use_web_search, local_docs) ==
    use_web_search /\ (Len(local_docs) = 0
                       \/ MaxScore(local_docs) <= confidence_threshold)

\* lines 475-478
NeedWebSearch(use_web_search, local_docs) ==
    use_web_search /\ (Len(local_docs) = 0
                       \/ MaxScore(local_docs) < confidence_threshold)

\* response += the note, when web search was used
WithNote(r) ==
    IF r.used_web_search
    THEN r.response \o <<"\n\n[Note: This response includes information retrieved from web searches.]">>
    ELSE r.response

\* lines 472-495.  local is what retrieve gave and web what search_web gave
\* (looked at only when search_web is called).  trace lists the states of the
\* pipeline the call went through, searches the num_results of each call of
\* search_web; an exception of retrieve or search_web ends the call
Query(user_query, use_web_search, local, web) ==
    IF local.raised
    THEN [raised |-> TRUE, error |-> "retrieve", cause |-> local.error,
          trace |-> <<"LocalRetrieve">>]
    ELSE LET need_web_search == NeedWebSearch(use_web_search, local.value)
         IN  IF need_web_search /\ web.raised
             THEN [raised |-> TRUE, error |-> web.error,
                   use_web_search |-> use_web_search,
                   local_docs |-> local.value,
                   searches |-> <<3>>,
                   trace |-> <<"LocalRetrieve", "ConfidenceCheck",
                               "WebAugment">>]
             ELSE LET combined_docs ==
                          IF need_web_search
                          THEN local.value \o web.value
                          ELSE local.value
                      r == GenerateResponse(combined_docs)
                  IN  [raised |-> FALSE,
                       user_query |-> user_query,
                       use_web_search |-> use_web_search,
                       local_docs |-> local.value,
                       searches |-> IF need_web_search THEN <<3>> ELSE <<>>,
                       web_docs |-> IF need_web_search
                                    THEN web.value ELSE <<>>,
                       combined_docs |-> combined_docs,
                       sorted_docs |-> r.sorted_docs,
                       used_web |-> r.used_web_search,
                       response |-> WithNote(r),
                       trace |-> IF need_web_search
                                 THEN <<"LocalRetrieve", "ConfidenceCheck",
                                        "WebAugment", "Merge">>
                                 ELSE <<"LocalRetrieve", "ConfidenceCheck",
                                        "Merge">>]

\* what the search_web call of a query can give; it is made only if
\* need_web_search
WebSearchOf(docs, idx, user_query, use_web_search, local) ==
    IF ~local.raised /\ NeedWebSearch(use_web_search, local.value)
    THEN SearchWebOutcomes(docs, idx, user_query, 3)
    ELSE {[documents |-> docs, index |-> idx, raised |-> FALSE,
           value |-> <<>>]}

query(user_query, top_k, use_web_search) ==
    \E local \in RetrieveOutcomes(documents, index, user_query, top_k) :
       \E web \in WebSearchOf(documents, index, user_query, use_web_search,
                              local) :
          /\ WithinBound(web)
          /\ documents' = web.documents
          /\ index' = web.index
          /\ last' = [op |-> "query", built |-> index.built,
                      result |-> Query(user_query, use_web_search, local,
                                       web)]

---------------------------------------------------------------------------
Next ==
    \/ \E limit \in 0..MaxLimit, hub_ok \in BOOLEAN :
          load_healthcare_magic_dataset(limit, hub_ok)
    \/ \E encode_ok \in BOOLEAN :
          build_index(encode_ok)
    \/ \E document \in NewDocuments, encode_ok \in BOOLEAN :
          add_document_to_index(document, encode_ok)
    \/ \E text \in Queries, top_k \in 1..MaxTopK :
          retrieve(text, top_k)
    \/ \E text \in Queries, num_results \in NumResults :
          search_web(text, num_results)
    \/ \E user_query \in Queries, top_k \in 1..MaxTopK,
             use_web_search \in BOOLEAN :
          query(user_query, top_k, use_web_search)

Spec == Init /\ [][Next]_vars

---------------------------------------------------------------------------
(* Properties *)

IsQueryResult == last.op = "query" /\ ~last.result.raised

NonIncreasing(docs) ==
    \A i, j \in 1..Len(docs) : i < j => docs[i].score >= docs[j].score

\* C1: once build_index has succeeded, after any sequence of calls the number
\* of vectors in the index equals the number of stored documents.
C1_IndexCountEqualsStore ==
    index.built => ntotal(index) = Len(documents)

\* C2: an add_document_to_index call that raises leaves the document store
\* and the index as they were before the call.
C2_AddIsAtomicOnFailure ==
    [][(last'.op = "add_document_to_index" /\ last'.raised)
          => (documents' = documents /\ index' = index)]_vars

\* C3: a failure of the search provider never makes search_web or query
\* raise: search_web returns the empty list and the query goes on to Merge.
C3_ProviderFailureGivesEmpty ==
    /\ (last.op = "search_web" /\ last.raised) => last.error # "search"
    /\ (last.op = "query" /\ last.result.raised)
          => last.result.error # "search"

\* C4: a query calls search_web if and only if use_web_search is true and the
\* local result list is empty or its maximum score is strictly below the
\* confidence threshold; it calls it at most once, with num_results = 3.
C4_WebSearchIffLowConfidence ==
    (last.op = "query" /\ Len(last.result.trace) > 1) =>
        LET r == last.result
            low == \/ Len(r.local_docs) = 0
                   \/ \A i \in 1..Len(r.local_docs) :
                         r.local_docs[i].score < confidence_threshold
        IN  /\ Len(r.searches) <= 1
            /\ \A i \in 1..Len(r.searches) : r.searches[i] = 3
            /\ Len(r.searches) = 1 <=> (r.use_web_search /\ low)
            /\ "WebAugment" \in Range(r.trace) <=> Len(r.searches) = 1

C4_Witness ==
    /\ IsQueryResult
    /\ Len(last.result.local_docs) > 0
    /\ last.result.searches = <<3>>

\* C5: every query started on a built index reaches Merge and completes,
\* whatever retrieval, web search, fetch and insertion do, going through
\* LocalRetrieve, ConfidenceCheck, WebAugment (if needed) and Merge in that
\* order, each at most once.
C5_QueryReachesMerge ==
    (last.op = "query" /\ last.built) =>
        /\ ~last.result.raised
        /\ last.result.trace \in
              { <<"LocalRetrieve", "ConfidenceCheck", "Merge">>,
                <<"LocalRetrieve", "ConfidenceCheck", "WebAugment", "Merge">> }

C7_EmptyFetchDropped ==
    /\ (last.op = "search_web" /\ ~last.raised) =>
          LET hits == last.search_results
              kept == {i \in 1..Len(hits) : last.fetched[i] # <<>>}
          IN  /\ Len(last.value) = Cardinality(kept)
              /\ \A j \in 1..Len(last.value) :
                    \E i \in kept :
                       /\ last.value[j].id = <<"web_", i - 1>>
                       /\ last.value[j].score = 100 - 10 * (i - 1)
                       /\ last.value[j].url = hits[i].url
                       /\ last.value[j].title = hits[i].title
                       /\ last.value[j].content = last.fetched[i]
              /\ \A j, k \in 1..Len(last.value) :
                    j < k => last.value[j].score > last.value[k].score
    /\ (last.op = "search_web" /\ last.raised) =>
          last.error \in {"search", "add_document_to_index"}
    /\ IsQueryResult =>
          \A j \in 1..Len(last.result.sorted_docs) :
             last.result.sorted_docs[j].content # <<>>

C7_Witness ==
    /\ last.op = "search_web" /\ ~last.raised
    /\ Len(last.search_results) = 2
    /\ last.fetched[1] = <<>>
    /\ Len(last.value) = 1

\* C8: a search_web call that returns normally appends to the document store
\* exactly one pseudo-document per returned web document (question the query,
\* answer the hit's title and snippet), appends as many vectors to the index,
\* and leaves every earlier document and vector as it was.
C8_OnePseudoDocumentPerHit ==
    [][(last'.op = "search_web" /\ ~last'.raised) =>
          LET n == Len(documents)
              web == last'.value
          IN  /\ Len(documents') = n + Len(web)
              /\ SubSeq(documents', 1, n) = documents
              /\ \A j \in 1..Len(web) :
                    /\ documents'[n + j].question = last'.query
                    /\ documents'[n + j].answer =
                          web[j].title \o <<". ">> \o web[j].snippet
                    /\ documents'[n + j].url = web[j].url
                    /\ documents'[n + j].id = n + j - 1
              /\ ntotal(index') = ntotal(index) + Len(web)
              /\ SubSeq(index'.vectors, 1, ntotal(index)) = index.vectors
              /\ index'.built = index.built]_vars

C8_Witness ==
    /\ last.op = "search_web" /\ ~last.raised
    /\ Len(last.value) = 2
    /\ Len(documents) = 3

\* C9: the final list of a query is its local documents followed by its web
\* documents, sorted by descending score with documents of equal score kept
\* in that order, and used_web_search is true exactly when the list holds a
\* web document.
C9_MergeStableDescending ==
    IsQueryResult =>
        LET r == last.result
            all == r.local_docs \o r.web_docs
            pos(d) == CHOOSE k \in 1..Len(r.sorted_docs) : r.sorted_docs[k] = d
        IN  /\ Len(r.sorted_docs) = Len(all)
            /\ \A i \in 1..Len(all) :
                  \E k \in 1..Len(r.sorted_docs) : r.sorted_docs[k] = all[i]
            /\ NonIncreasing(r.sorted_docs)
            /\ \A i, j \in 1..Len(all) :
                  (i < j /\ all[i].score = all[j].score)
                     => pos(all[i]) < pos(all[j])
            /\ r.used_web <=>
                  \E k \in 1..Len(r.sorted_docs) :
                     r.sorted_docs[k].source = "web"

C9_Witness ==
    /\ IsQueryResult
    /\ Len(last.result.sorted_docs) = 2
    /\ last.result.sorted_docs[1].score = last.result.sorted_docs[2].score
    /\ last.result.sorted_docs[1].id > last.result.sorted_docs[2].id

\* C10: with a built index, retrieve returns at most top_k results in
\* non-increasing score order, and fewer than top_k only if the index holds
\* fewer than top_k vectors.
C10_RetrieveTopK ==
    (last.op = "retrieve" /\ ~last.raised) =>
        /\ Len(last.value) <= last.top_k
        /\ NonIncreasing(last.value)
        /\ Len(last.value) < last.top_k => ntotal(index) < last.top_k

\* C11: a query with web search enabled that starts from an empty document
\* store is answered from the web: nothing but a failing embedding of the
\* query stops it before the provider is asked, and when it returns, its
\* final list is the web documents of the provider's hits that have content
\* (the first hit with score 1.0), used_web_search is true exactly when there
\* are some, and the store has grown by one pseudo-document per web document.
C11_EmptyStoreAnsweredFromWeb ==
    [][(Len(documents) = 0 /\ last'.op = "query") =>
          LET r == last'.result
          IN  /\ (r.raised /\ r.error = "retrieve") => r.cause = "encode"
              /\ (~r.raised /\ r.use_web_search) =>
                    /\ r.searches = <<3>>
                    /\ r.sorted_docs = r.web_docs
                    /\ r.used_web <=> Len(r.web_docs) > 0
                    /\ \A j \in 1..Len(r.web_docs) :
                          /\ r.web_docs[j].source = "web"
                          /\ r.web_docs[j].id = <<"web_", 0>>
                                => r.web_docs[j].score = 100
                    /\ Len(documents') = Len(r.web_docs)]_vars

====
